---- MODULE Spec2Model ----
(***************************************************************************)
(* Model of netlify/functions/submit.js: the survey-submission handler.    *)
(*                                                                         *)
(* Text is a sequence of tokens.  A token is either one character that the *)
(* code treats specially ("&", "<", ">", the double quote, the newline,    *)
(* the backslash, "=", "{", ...) or a word: a run of characters none of    *)
(* which is special to any parser or escaper of the handler.  Literal      *)
(* markup of the HTML template is written as one token per literal piece.  *)
(* The Chinese literals of the source are written in ASCII (TLA+ strings   *)
(* are ASCII); the comment beside each gives the source text.              *)
(***************************************************************************)
EXTENDS Integers, Sequences, FiniteSets, TLC

VARIABLES
    method,      \* req.method
    header,      \* req.headers.get("content-type"): Null or Str
    body,        \* the text carried by the request body stream
    bodyUsed,    \* the stream has been consumed (or a read of it was started)
    readCalls,   \* number of req.json()/text()/formData() calls
    readsOk,     \* number of reads that consumed the stream successfully
    envRead,     \* process.env has been consulted
    env,         \* process.env
    data,        \* let data
    subject,     \* const subject
    orderedPairs,\* let orderedPairs, after the loop of lines 76-81
    rows,        \* const rows
    htmlContent, \* const htmlContent
    fetchCalls,  \* number of calls of fetch()
    sent,        \* the JSON body handed to fetch()
    provider,    \* what the provider answered
    err,         \* the exception on its way to the outer catch
    escaped,     \* an exception left the handler
    responses,   \* number of responses returned
    response,    \* the response returned
    pc

vars == <<method, header, body, bodyUsed, readCalls, readsOk, envRead, env,
          data, subject, orderedPairs, rows, htmlContent, fetchCalls, sent,
          provider, err, escaped, responses, response, pc>>

(***************************************************************************)
(* JavaScript values                                                       *)
(***************************************************************************)
Undef == [t |-> "undefined"]
Null == [t |-> "null"]
Bool(b) == [t |-> "bool", b |-> b]
Num(s) == [t |-> "num", s |-> s]
Str(s) == [t |-> "str", s |-> s]
Arr(a) == [t |-> "arr", a |-> a]
Obj(e) == [t |-> "obj", e |-> e]

\* ss.join(sep)
RECURSIVE Join(_, _)
Join(ss, sep) ==
    IF ss = <<>> THEN <<>>
    ELSE IF Len(ss) = 1 THEN ss[1]
    ELSE ss[1] \o sep \o Join(Tail(ss), sep)

\* text.replace(/c/g, by): every token c replaced by the tokens by.
RECURSIVE ReplaceAll(_, _, _)
ReplaceAll(s, c, by) ==
    IF s = <<>> THEN <<>>
    ELSE (IF Head(s) = c THEN by ELSE <<Head(s)>>) \o ReplaceAll(Tail(s), c, by)

\* The index of the first token c of s at or after i, Len(s)+1 when none.
RECURSIVE IndexOf(_, _, _)
IndexOf(s, c, i) ==
    IF i > Len(s) THEN Len(s) + 1
    ELSE IF s[i] = c THEN i
    ELSE IndexOf(s, c, i + 1)

\* s.split(c)
RECURSIVE Split(_, _)
Split(s, c) ==
    LET j == IndexOf(s, c, 1)
    IN  IF j > Len(s) THEN <<s>>
        ELSE <<SubSeq(s, 1, j - 1)>> \o Split(SubSeq(s, j + 1, Len(s)), c)

(***************************************************************************)
(* Property order of a JavaScript object: Object.fromEntries, JSON.parse   *)
(* and Object.entries.  Integer-index keys come first in ascending order,  *)
(* the other keys follow in the order of their first insertion; setting a  *)
(* key that exists replaces the value and keeps the position.              *)
(***************************************************************************)
IndexValue == [x \in {"0", "1", "2", "10"} |->
    CASE x = "0" -> 0 [] x = "1" -> 1 [] x = "2" -> 2 [] x = "10" -> 10]

IsIndexKey(k) == Len(k) = 1 /\ k[1] \in DOMAIN IndexValue

HasOwn(e, k) == \E i \in 1..Len(e) : e[i].k = k

\* [[Set]] of own property k on the property list e.
ObjSet(e, k, v) ==
    IF HasOwn(e, k)
    THEN [i \in 1..Len(e) |-> IF e[i].k = k THEN [k |-> k, v |-> v] ELSE e[i]]
    ELSE IF IsIndexKey(k)
    THEN LET before == {i \in 1..Len(e) :
                           IsIndexKey(e[i].k)
                           /\ IndexValue[e[i].k[1]] < IndexValue[k[1]]}
             n == Cardinality(before)
         IN  SubSeq(e, 1, n) \o <<[k |-> k, v |-> v]>> \o SubSeq(e, n + 1, Len(e))
    ELSE Append(e, [k |-> k, v |-> v])

\* Object.fromEntries(entries)
RECURSIVE FromEntriesOn(_, _)
FromEntriesOn(e, entries) ==
    IF entries = <<>> THEN e
    ELSE FromEntriesOn(ObjSet(e, Head(entries).k, Head(entries).v), Tail(entries))

FromEntries(entries) == Obj(FromEntriesOn(<<>>, entries))

(***************************************************************************)
(* new URLSearchParams(text): the application/x-www-form-urlencoded        *)
(* parser.  The pieces between "&" are split at their first "="; "+" is a  *)
(* space and a percent escape (one token here) is the character it names.  *)
(***************************************************************************)
PercentDecoded == [x \in {"%26", "%3C", "%3E", "%22", "%0A", "%3D"} |->
    CASE x = "%26" -> "&" [] x = "%3C" -> "<" [] x = "%3E" -> ">"
      [] x = "%22" -> "\"" [] x = "%0A" -> "\n" [] x = "%3D" -> "="]

UrlDecode(s) ==
    [i \in 1..Len(s) |->
        IF s[i] = "+" THEN " "
        ELSE IF s[i] \in DOMAIN PercentDecoded THEN PercentDecoded[s[i]]
        ELSE s[i]]

UrlPair(piece) ==
    LET j == IndexOf(piece, "=", 1)
    IN  [k |-> UrlDecode(SubSeq(piece, 1, j - 1)),
         v |-> Str(UrlDecode(SubSeq(piece, j + 1, Len(piece))))]

URLSearchParams(text) ==
    LET t == IF text # <<>> /\ Head(text) = "?" THEN Tail(text) ELSE text
        pieces == SelectSeq(Split(t, "&"), LAMBDA p : p # <<>>)
    IN  [i \in 1..Len(pieces) |-> UrlPair(pieces[i])]

(***************************************************************************)
(* JSON.parse(text).  The result is [ok, v, i]: ok is FALSE where          *)
(* JSON.parse throws SyntaxError, v is the value and i the index after it. *)
(***************************************************************************)
NumberTokens == {"0", "1", "2", "4", "5", "10"}

JsonWhitespace == {" ", "\n"}

JsonUnescaped == [x \in {"n", "\"", "\\", "/"} |->
    CASE x = "n" -> "\n" [] x = "\"" -> "\"" [] x = "\\" -> "\\" [] x = "/" -> "/"]

ParseFail == [ok |-> FALSE, v |-> Undef, i |-> 0]

RECURSIVE SkipWs(_, _)
SkipWs(t, i) ==
    IF i <= Len(t) /\ t[i] \in JsonWhitespace THEN SkipWs(t, i + 1) ELSE i

\* The characters of a string literal, from the token after its opening quote.
RECURSIVE ParseChars(_, _, _)
ParseChars(t, i, acc) ==
    IF i > Len(t) THEN ParseFail
    ELSE IF t[i] = "\"" THEN [ok |-> TRUE, v |-> Str(acc), i |-> i + 1]
    ELSE IF t[i] = "\\"
    THEN IF i + 1 <= Len(t) /\ t[i + 1] \in DOMAIN JsonUnescaped
         THEN ParseChars(t, i + 2, Append(acc, JsonUnescaped[t[i + 1]]))
         ELSE ParseFail
    ELSE IF t[i] = "\n" THEN ParseFail
    ELSE ParseChars(t, i + 1, Append(acc, t[i]))

RECURSIVE ParseValue(_, _)
RECURSIVE ParseMembers(_, _, _)
RECURSIVE ParseElements(_, _, _)

\* The members of an object, from the token where a member must start.
ParseMembers(t, i0, e) ==
    LET i == SkipWs(t, i0)
    IN  IF i > Len(t) \/ t[i] # "\"" THEN ParseFail
        ELSE LET key == ParseChars(t, i + 1, <<>>)
                 c == IF key.ok THEN SkipWs(t, key.i) ELSE 0
             IN  IF ~key.ok \/ c > Len(t) \/ t[c] # ":" THEN ParseFail
                 ELSE LET val == ParseValue(t, c + 1)
                          n == IF val.ok THEN SkipWs(t, val.i) ELSE 0
                      IN  IF ~val.ok \/ n > Len(t) THEN ParseFail
                          ELSE IF t[n] = ","
                          THEN ParseMembers(t, n + 1, ObjSet(e, key.v.s, val.v))
                          ELSE IF t[n] = "}"
                          THEN [ok |-> TRUE, v |-> Obj(ObjSet(e, key.v.s, val.v)),
                                i |-> n + 1]
                          ELSE ParseFail

\* The elements of an array, from the token where an element must start.
ParseElements(t, i0, a) ==
    LET val == ParseValue(t, i0)
        n == IF val.ok THEN SkipWs(t, val.i) ELSE 0
    IN  IF ~val.ok \/ n > Len(t) THEN ParseFail
        ELSE IF t[n] = "," THEN ParseElements(t, n + 1, Append(a, val.v))
        ELSE IF t[n] = "]"
        THEN [ok |-> TRUE, v |-> Arr(Append(a, val.v)), i |-> n + 1]
        ELSE ParseFail

ParseValue(t, i0) ==
    LET i == SkipWs(t, i0)
    IN  IF i > Len(t) THEN ParseFail
        ELSE IF t[i] = "{"
        THEN LET j == SkipWs(t, i + 1)
             IN  IF j <= Len(t) /\ t[j] = "}"
                 THEN [ok |-> TRUE, v |-> Obj(<<>>), i |-> j + 1]
                 ELSE ParseMembers(t, i + 1, <<>>)
        ELSE IF t[i] = "["
        THEN LET j == SkipWs(t, i + 1)
             IN  IF j <= Len(t) /\ t[j] = "]"
                 THEN [ok |-> TRUE, v |-> Arr(<<>>), i |-> j + 1]
                 ELSE ParseElements(t, i + 1, <<>>)
        ELSE IF t[i] = "\"" THEN ParseChars(t, i + 1, <<>>)
        ELSE IF t[i] = "null" THEN [ok |-> TRUE, v |-> Null, i |-> i + 1]
        ELSE IF t[i] = "true" THEN [ok |-> TRUE, v |-> Bool(TRUE), i |-> i + 1]
        ELSE IF t[i] = "false" THEN [ok |-> TRUE, v |-> Bool(FALSE), i |-> i + 1]
        ELSE IF t[i] \in NumberTokens
        THEN [ok |-> TRUE, v |-> Num(<<t[i]>>), i |-> i + 1]
        ELSE ParseFail

JsonParse(text) ==
    LET r == ParseValue(text, 1)
    IN  IF r.ok /\ SkipWs(text, r.i) = Len(text) + 1 THEN r ELSE ParseFail

(***************************************************************************)
(* The decoding of a multipart/form-data body by req.formData().  On the   *)
(* wire here a part is the boundary token, the tokens of the field name,   *)
(* the blank line that ends the part's headers and the tokens of the       *)
(* value; the closing boundary token ends the body.  ok is FALSE where     *)
(* formData() rejects with TypeError.                                      *)
(***************************************************************************)
Boundary == "--boundary"
ClosingBoundary == "--boundary--"
BlankLine == "\r\n\r\n"

FormDataParse(text) ==
    IF Len(text) < 1 \/ text[Len(text)] # ClosingBoundary
    THEN [ok |-> FALSE, entries |-> <<>>]
    ELSE LET inner == SubSeq(text, 1, Len(text) - 1)
             parts == IF inner = <<>> THEN <<>> ELSE Tail(Split(inner, Boundary))
         IN  IF inner # <<>> /\ Head(inner) # Boundary
             THEN [ok |-> FALSE, entries |-> <<>>]
             ELSE IF \E i \in 1..Len(parts) :
                        IndexOf(parts[i], BlankLine, 1) > Len(parts[i])
             THEN [ok |-> FALSE, entries |-> <<>>]
             ELSE [ok |-> TRUE,
                   entries |-> [i \in 1..Len(parts) |->
                       LET j == IndexOf(parts[i], BlankLine, 1)
                       IN  [k |-> SubSeq(parts[i], 1, j - 1),
                            v |-> Str(SubSeq(parts[i], j + 1, Len(parts[i])))]]]

(***************************************************************************)
(* Property access, the in operator, truthiness and String()               *)
(***************************************************************************)
\* Names every object inherits from Object.prototype.
ObjectPrototypeKeys ==
    {<<"constructor">>, <<"toString">>, <<"valueOf">>, <<"hasOwnProperty">>,
     <<"isPrototypeOf">>, <<"propertyIsEnumerable">>, <<"toLocaleString">>,
     <<"__proto__">>}

\* Names an array inherits from Array.prototype, and its own length.
ArrayPrototypeKeys == {<<"length">>, <<"join">>, <<"map">>, <<"filter">>}

Function(name) == [t |-> "function", name |-> name]

IndexKeys == <<<<"0">>, <<"1">>, <<"2">>>>

\* Object.entries(v) of an object or an array.
Entries(v) ==
    IF v.t = "obj" THEN v.e
    ELSE IF v.t = "arr"
    THEN [i \in 1..Len(v.a) |-> [k |-> IndexKeys[i], v |-> v.a[i]]]
    ELSE <<>>

\* k in v, for an object or an array v: own or inherited.
In(k, v) ==
    \/ HasOwn(Entries(v), k)
    \/ k \in ObjectPrototypeKeys
    \/ v.t = "arr" /\ k \in ArrayPrototypeKeys

\* v[k], for a v that is neither null nor undefined.
Get(v, k) ==
    LET e == Entries(v)
    IN  IF HasOwn(e, k) THEN e[CHOOSE i \in 1..Len(e) : e[i].k = k].v
        ELSE IF v.t \in {"obj", "arr"} /\ k \in ObjectPrototypeKeys THEN Function(k)
        ELSE Undef

Truthy(v) ==
    CASE v.t \in {"undefined", "null"} -> FALSE
      [] v.t = "bool" -> v.b
      [] v.t = "num" -> v.s # <<"0">>
      [] v.t = "str" -> v.s # <<>>
      [] OTHER -> TRUE

\* a || b
Or(a, b) == IF Truthy(a) THEN a ELSE b

\* String(v); an array is its elements joined by ",", null and undefined
\* elements giving the empty text.
RECURSIVE String(_)
String(v) ==
    CASE v.t = "str" -> v.s
      [] v.t = "num" -> v.s
      [] v.t = "bool" -> IF v.b THEN <<"true">> ELSE <<"false">>
      [] v.t = "null" -> <<"null">>
      [] v.t = "undefined" -> <<"undefined">>
      [] v.t = "obj" -> <<"[object Object]">>
      [] v.t = "function" -> <<"function ">> \o v.name \o <<"() { [native code] }">>
      [] v.t = "arr" ->
            Join([i \in 1..Len(v.a) |->
                    IF v.a[i].t \in {"null", "undefined"} THEN <<>>
                    ELSE String(v.a[i])], <<",">>)

\* v.join(", ") of an array v
JoinCommaSpace(v) ==
    Join([i \in 1..Len(v.a) |->
            IF v.a[i].t \in {"null", "undefined"} THEN <<>> ELSE String(v.a[i])],
         <<",", " ">>)

(***************************************************************************)
(* JSON.stringify(v, null, 2)                                              *)
(***************************************************************************)
RECURSIVE Quote(_)
Quote(s) ==
    IF s = <<>> THEN <<>>
    ELSE (CASE Head(s) = "\"" -> <<"\\", "\"">>
            [] Head(s) = "\\" -> <<"\\", "\\">>
            [] Head(s) = "\n" -> <<"\\", "n">>
            [] OTHER -> <<Head(s)>>) \o Quote(Tail(s))

JsonString(s) == <<"\"">> \o Quote(s) \o <<"\"">>

Indent(level) == [i \in 1..(2 * level) |-> " "]

RECURSIVE Stringify(_, _)
Stringify(v, level) ==
    CASE v.t = "str" -> JsonString(v.s)
      [] v.t = "num" -> v.s
      [] v.t = "bool" -> IF v.b THEN <<"true">> ELSE <<"false">>
      [] v.t = "arr" ->
            IF v.a = <<>> THEN <<"[", "]">>
            ELSE <<"[", "\n">>
                 \o Join([i \in 1..Len(v.a) |->
                            Indent(level + 1) \o Stringify(v.a[i], level + 1)],
                         <<",", "\n">>)
                 \o <<"\n">> \o Indent(level) \o <<"]">>
      [] v.t = "obj" ->
            IF v.e = <<>> THEN <<"{", "}">>
            ELSE <<"{", "\n">>
                 \o Join([i \in 1..Len(v.e) |->
                            Indent(level + 1) \o JsonString(v.e[i].k) \o <<":", " ">>
                            \o Stringify(v.e[i].v, level + 1)],
                         <<",", "\n">>)
                 \o <<"\n">> \o Indent(level) \o <<"}">>
      [] OTHER -> <<"null">>

(***************************************************************************)
(* escapeHtml: four replacements, one after the other, "&" first.  a, b, c *)
(* and d are the text after each replacement.                              *)
(***************************************************************************)
\* The replacements in another order: "&" last.
escapeHtmlAmpLast(s) ==
    CHOOSE r \in
        {ReplaceAll(d, "&", <<"&", "amp", ";">>) : d \in
            {ReplaceAll(c, "\"", <<"&", "quot", ";">>) : c \in
                {ReplaceAll(b, ">", <<"&", "gt", ";">>) : b \in
                    {ReplaceAll(a, "<", <<"&", "lt", ";">>) : a \in {s}}}}} : TRUE

escapeHtml(s) ==
    CHOOSE r \in
        {ReplaceAll(d, "\"", <<"&", "quot", ";">>) : d \in
            {ReplaceAll(c, ">", <<"&", "gt", ";">>) : c \in
                {ReplaceAll(b, "<", <<"&", "lt", ";">>) : b \in
                    {ReplaceAll(a, "&", <<"&", "amp", ";">>) : a \in {s}}}}} : TRUE

(***************************************************************************)
(* Presentation: subject, ordered pairs, rows and the HTML document        *)
(***************************************************************************)
\* const labelMap.  The labels stand for the Chinese labels of the source:
\* customer_name "姓名/LINE", q1 "服務滿意度", q2 "專業程度",
\* q2_extra "專業程度備註", q3 "服務人員表現 (1-5)", q4 "推薦度 (1-10)",
\* q5 "是否再次委託", q6 "其他建議".
labelMap ==
    Obj(<<[k |-> <<"customer_name">>, v |-> Str(<<"Name/LINE">>)],
          [k |-> <<"q1">>, v |-> Str(<<"Service satisfaction">>)],
          [k |-> <<"q2">>, v |-> Str(<<"Professionalism">>)],
          [k |-> <<"q2_extra">>, v |-> Str(<<"Professionalism note">>)],
          [k |-> <<"q3">>, v |-> Str(<<"Staff performance (1-5)">>)],
          [k |-> <<"q4">>, v |-> Str(<<"Recommendation (1-10)">>)],
          [k |-> <<"q5">>, v |-> Str(<<"Would hire again">>)],
          [k |-> <<"q6">>, v |-> Str(<<"Other suggestions">>)]>>)

\* Object.keys(labelMap)
LabelKeys == [i \in 1..Len(labelMap.e) |-> labelMap.e[i].k]

\* The set without the honeypot field.
skipKeysWithoutHoneypot ==
    {<<"form-name">>, <<"g-recaptcha-response">>, <<"submit">>, <<"userAgent">>,
     <<"submittedAt">>}

\* const skipKeys
skipKeys ==
    {<<"bot-field">>, <<"form-name">>, <<"g-recaptcha-response">>, <<"submit">>,
     <<"userAgent">>, <<"submittedAt">>}

\* data["姓名"]
NameLabelKey == <<"xingming">>

\* data.customer_name || data.name || data.line || data["姓名"] || ""
CustomerName(d) ==
    Or(Or(Or(Or(Get(d, <<"customer_name">>), Get(d, <<"name">>)),
             Get(d, <<"line">>)),
          Get(d, NameLabelKey)),
       Str(<<>>))

\* `【服務滿意度】新問卷回覆：${customerName || "未填姓名"}`
SubjectPrefix == <<"[Service satisfaction] New survey reply: ">>
NameNotFilled == Str(<<"(name not filled)">>)

Subject(d) == SubjectPrefix \o String(Or(CustomerName(d), NameNotFilled))

\* Object.keys(labelMap).filter((k) => k in data).map((k) => [k, data[k]])
LabelPairs(d) ==
    LET present == SelectSeq(LabelKeys, LAMBDA k : In(k, d))
    IN  [i \in 1..Len(present) |-> [k |-> present[i], v |-> Get(d, present[i])]]

\* The loop of lines 76-81 over the entries that remain.
RECURSIVE PushRemaining(_, _)
PushRemaining(pairs, entries) ==
    IF entries = <<>> THEN pairs
    ELSE LET p == Head(entries)
         IN  IF p.k \in skipKeys THEN PushRemaining(pairs, Tail(entries))
             ELSE IF ~In(p.k, labelMap) /\ ~HasOwn(pairs, p.k)
             THEN PushRemaining(Append(pairs, p), Tail(entries))
             ELSE PushRemaining(pairs, Tail(entries))

OrderedPairs(d) == PushRemaining(LabelPairs(d), Entries(d))

\* orderedPairs.filter(([k]) => !skipKeys.has(k))
VisiblePairs(pairs) == SelectSeq(pairs, LAMBDA p : p.k \notin skipKeys)

\* labelMap[k] || k
RowLabel(k) == String(Or(Get(labelMap, k), Str(k)))

\* The value stringified whatever it is.
RowValueNotJoined(v) == IF v.t \in {"null", "undefined"} THEN <<>> ELSE String(v)

\* Array.isArray(v) ? v.join(", ") : String(v ?? "")
RowValue(v) ==
    IF v.t = "arr" THEN JoinCommaSpace(v)
    ELSE IF v.t \in {"null", "undefined"} THEN <<>>
    ELSE String(v)

RowOpen == "<tr><th align=\"left\" style=\"white-space:nowrap\">"
RowMiddle == "</th><td>"
RowClose == "</td></tr>"
LineBreak == "<br/>"
\* "(未填)"
NotFilled == "(not filled)"

\* escapeHtml(val).replace(/\n/g,"<br/>") || "(未填)"
RowCell(v) ==
    LET c == ReplaceAll(escapeHtml(RowValue(v)), "\n", <<LineBreak>>)
    IN  IF c = <<>> THEN <<NotFilled>> ELSE c

Row(p) ==
    <<RowOpen>> \o escapeHtml(RowLabel(p.k)) \o <<RowMiddle>> \o RowCell(p.v)
    \o <<RowClose>>

Rows(pairs) ==
    LET shown == VisiblePairs(pairs)
    IN  Join([i \in 1..Len(shown) |-> Row(shown[i])], <<"\n">>)

\* new Date().toISOString()
NowIso == Str(<<"2025-01-01T00:00:00.000Z">>)

\* data.submittedAt || new Date().toISOString()
SubmittedAt(d) == Or(Get(d, <<"submittedAt">>), NowIso)

\* data.userAgent || ""
UserAgent(d) == Or(Get(d, <<"userAgent">>), Str(<<>>))

\* The literal pieces of the template of lines 95-105, without the white space
\* between its tags.
DocOpen == "<div style=\"font-family:Arial,Helvetica,sans-serif;line-height:1.6\"><h2>"
TableOpen == "</h2><table border=\"1\" cellpadding=\"8\" cellspacing=\"0\" style=\"border-collapse:collapse;width:100%;max-width:760px\">"
\* '<tr><td>(沒有欄位資料)</td></tr>'
NoFieldData == "<tr><td>(no field data)</td></tr>"
\* <tr><th align="left">送出時間</th><td>
SentAtOpen == "<tr><th align=\"left\">Submitted at</th><td>"
UserAgentOpen == "</td></tr><tr><th align=\"left\">User-Agent</th><td>"
PreOpen == "</td></tr></table><pre style=\"margin-top:12px;background:#f6f8fa;padding:12px;border-radius:6px;overflow:auto\">"
DocClose == "</pre></div>"

HtmlContent(d, subj, rws) ==
    <<DocOpen>> \o escapeHtml(subj)
    \o <<TableOpen>> \o (IF rws = <<>> THEN <<NoFieldData>> ELSE rws)
    \o <<SentAtOpen>> \o escapeHtml(String(SubmittedAt(d)))
    \o <<UserAgentOpen>> \o escapeHtml(String(UserAgent(d)))
    \o <<PreOpen>> \o escapeHtml(Stringify(d, 0))
    \o <<DocClose>>

(***************************************************************************)
(* Requests, configurations and provider outcomes the model draws from     *)
(***************************************************************************)
Methods == {"POST", "GET"}

Headers ==
    {Null,
     Str(<<"application/json">>),
     Str(<<"Application/JSON", ";", " ", "charset=utf-8">>),
     Str(<<"application/x-www-form-urlencoded">>),
     Str(<<"multipart/form-data", ";", " ", "boundary=boundary">>),
     Str(<<"text/plain">>)}

Q == "\""

Bodies ==
    {<<>>,
     <<"q1", "=", "5">>,
     <<"q2", "=", "4", "&", "q1", "=", "5">>,
     <<"bot-field", "=", "x", "&", "q1", "=", "5", "&", "custom_note", "=", "hi">>,
     <<"tag", "=", "a", "&", "name", "=", "Amy", "&", "tag", "=", "b">>,
     <<"q6", "=", "%3C", "script", "%3E", "+", "%26", "%22", "%0A", "b">>,
     <<"{", Q, "q2", Q, ":", Q, "4", Q, ",", Q, "q1", Q, ":", Q, "5", Q, "}">>,
     <<"{", Q, "customer_name", Q, ":", Q, "Amy", Q, ",", " ",
            Q, "q5", Q, ":", "[", Q, "yes", Q, ",", Q, "no", Q, "]", ",",
            Q, "bot-field", Q, ":", Q, "x", Q, "}">>,
     <<"{", Q, "q6", Q, ":", Q, "a", "\\", "n", "b", "<", "&", ">", "\\", Q, Q, ",",
            Q, "submittedAt", Q, ":", Q, "t1", Q, ",",
            Q, "userAgent", Q, ":", Q, "UA", "<", "1", ">", Q, "}">>,
     <<"{", Q, "q1", Q>>,
     <<"null">>,
     <<"5">>,
     <<Q, "abc", Q>>,
     <<"[", Q, "a", Q, ",", Q, "b", Q, "]">>,
     <<Boundary, "q1", BlankLine, "5",
       Boundary, "tag", BlankLine, "a",
       Boundary, "tag", BlankLine, "b", ClosingBoundary>>,
     <<Boundary, "bot-field", BlankLine, "x",
       Boundary, "q2", BlankLine, "4", ClosingBoundary>>}

\* A value of process.env: unset, set to the empty text, or set.
EnvValues == {Undef, Str(<<>>), Str(<<"set">>)}

Envs ==
    [BREVO_API_KEY : EnvValues, TO_EMAIL : {Undef, Str(<<"to@example.com">>)},
     FROM_EMAIL : {Undef, Str(<<"from@example.com">>)},
     SITE_NAME : {Undef, Str(<<"My Site">>)}]

\* What awaiting fetch() gives: a rejection, or a response whose text may or
\* may not be readable.
ProviderOutcomes ==
    {[kind |-> "threw", ok |-> FALSE, status |-> 0, text |-> <<>>, readable |-> FALSE],
     [kind |-> "res", ok |-> TRUE, status |-> 200, text |-> <<"{}">>, readable |-> TRUE],
     [kind |-> "res", ok |-> TRUE, status |-> 201, text |-> <<"{}">>, readable |-> TRUE],
     [kind |-> "res", ok |-> FALSE, status |-> 400, text |-> <<"bad request">>,
      readable |-> TRUE],
     [kind |-> "res", ok |-> FALSE, status |-> 500, text |-> <<"oops">>,
      readable |-> FALSE]}

NoProvider ==
    [kind |-> "none", ok |-> FALSE, status |-> 0, text |-> <<>>, readable |-> FALSE]

(***************************************************************************)
(* Responses                                                               *)
(***************************************************************************)
JsonContentType == "application/json; charset=utf-8"

NoResponse == [status |-> 0, contentType |-> "", cacheControl |-> "", body |-> Undef]

\* new Response(JSON.stringify(obj), {status, headers})
Response(status, cache, obj) ==
    [status |-> status, contentType |-> JsonContentType, cacheControl |-> cache,
     body |-> obj]

MethodNotAllowed == Obj(<<[k |-> <<"error">>, v |-> Str(<<"Method Not Allowed">>)]>>)

MissingEnvMessage ==
    <<"Missing environment variables. Please configure BREVO_API_KEY, TO_EMAIL, FROM_EMAIL.">>

MissingEnv == Obj(<<[k |-> <<"error">>, v |-> Str(MissingEnvMessage)]>>)

BrevoError(details) ==
    Obj(<<[k |-> <<"error">>, v |-> Str(<<"Brevo API error">>)],
          [k |-> <<"details">>, v |-> Str(details)]>>)

OkBody == Obj(<<[k |-> <<"ok">>, v |-> Bool(TRUE)]>>)

ErrorBody(e) == Obj(<<[k |-> <<"error">>, v |-> Str(e)]>>)

(***************************************************************************)
(* The handler.  pc is the place the invocation has reached; the steps are *)
(* the stretches of code between two awaits or two stages.                 *)
(***************************************************************************)
Fresh ==
    /\ bodyUsed = FALSE /\ readCalls = 0 /\ readsOk = 0 /\ envRead = FALSE
    /\ data = Obj(<<>>) /\ subject = <<>> /\ orderedPairs = <<>> /\ rows = <<>>
    /\ htmlContent = <<>> /\ fetchCalls = 0 /\ sent = Undef
    /\ provider = NoProvider /\ err = <<>> /\ escaped = FALSE
    /\ responses = 0 /\ response = NoResponse /\ pc = "start"

Init ==
    /\ method \in Methods
    /\ header \in Headers
    /\ body \in Bodies
    /\ env \in Envs
    /\ Fresh

request == <<method, header, body, env>>
parsing == <<bodyUsed, readCalls, readsOk, data>>
built == <<subject, orderedPairs, rows, htmlContent>>
delivery == <<fetchCalls, sent, provider>>

\* return new Response(...)
Return(r) == /\ response' = r /\ responses' = responses + 1 /\ pc' = "done"

\* throw e, inside the outer try
Throw(e) == /\ err' = e /\ pc' = "catch" /\ UNCHANGED <<response, responses>>

\* The comparison inverted.
RejectedInverted(m) == m = "POST"

\* req.method !== "POST"
Rejected(m) == m # "POST"

\* Lines 8-13: the request gate.
Gate ==
    /\ pc = "start"
    /\ IF Rejected(method)
       THEN Return(Response(405, "", MethodNotAllowed))
       ELSE pc' = "parse" /\ UNCHANGED <<response, responses>>
    /\ UNCHANGED <<request, parsing, envRead, built, delivery, err, escaped>>

\* text.toLowerCase()
ToLowerCase(s) ==
    [i \in 1..Len(s) |-> IF s[i] = "Application/JSON" THEN "application/json" ELSE s[i]]

\* (req.headers.get("content-type") || "").toLowerCase()
ContentType(h) == ToLowerCase(Or(h, Str(<<>>)).s)

\* ct.includes(word)
Includes(ct, word) == \E i \in 1..Len(ct) : ct[i] = word

\* Which branch of lines 19-31 the content type selects.
Branch(ct) ==
    IF Includes(ct, "application/json") THEN "json"
    ELSE IF Includes(ct, "application/x-www-form-urlencoded") THEN "urlencoded"
    ELSE IF Includes(ct, "multipart/form-data") THEN "multipart"
    ELSE "other"

\* try { data = JSON.parse(text || "{}") } catch { data = Object.fromEntries(...) }
JsonThenUrlEncoded(text) ==
    LET r == JsonParse(IF text = <<>> THEN <<"{", "}">> ELSE text)
    IN  IF r.ok THEN r.v ELSE FromEntries(URLSearchParams(text))

\* What the branch makes of the text the stream delivered: the value of data,
\* or thrown.
Decode(branch, text) ==
    CASE branch = "json" ->
            LET r == JsonParse(text) IN [thrown |-> ~r.ok, v |-> r.v]
      [] branch = "urlencoded" ->
            [thrown |-> FALSE, v |-> FromEntries(URLSearchParams(text))]
      [] branch = "multipart" ->
            LET f == FormDataParse(text)
            IN  [thrown |-> ~f.ok, v |-> FromEntries(f.entries)]
      [] OTHER -> [thrown |-> FALSE, v |-> JsonThenUrlEncoded(text)]

\* The outcomes of req.json(), req.text() or req.formData() on the stream: a
\* stream already used rejects; an unused one delivers its text or fails.
ReadOutcomes(used) == IF used THEN {FALSE} ELSE BOOLEAN

\* Lines 16-31: the read of the body and its decoding.
ParseBody ==
    /\ pc = "parse"
    /\ \E delivered \in ReadOutcomes(bodyUsed) :
          LET d == Decode(Branch(ContentType(header)), body)
          IN  /\ readCalls' = readCalls + 1
              /\ bodyUsed' = TRUE
              /\ readsOk' = IF delivered THEN readsOk + 1 ELSE readsOk
              /\ IF delivered /\ ~d.thrown
                 THEN data' = d.v /\ pc' = "env"
                 ELSE data' = data /\ pc' = "fallback"
    /\ UNCHANGED <<request, envRead, built, delivery, err, escaped, response, responses>>

\* Lines 32-36: the catch of the body parsing.
Fallback ==
    /\ pc = "fallback"
    /\ \E delivered \in ReadOutcomes(bodyUsed) :
          LET text == IF delivered THEN body ELSE <<>>
          IN  /\ readCalls' = readCalls + 1
              /\ bodyUsed' = TRUE
              /\ readsOk' = IF delivered THEN readsOk + 1 ELSE readsOk
              /\ data' = JsonThenUrlEncoded(text)
    /\ pc' = "env"
    /\ UNCHANGED <<request, envRead, built, delivery, err, escaped, response, responses>>

\* The check of the key alone.
MissingConfigKeyOnly(e) == ~Truthy(e.BREVO_API_KEY)

\* !apiKey || !toEmail || !fromEmail
MissingConfig(e) ==
    ~Truthy(e.BREVO_API_KEY) \/ ~Truthy(e.TO_EMAIL) \/ ~Truthy(e.FROM_EMAIL)

\* Lines 39-48: the configuration.
EnvCheck ==
    /\ pc = "env"
    /\ envRead' = TRUE
    /\ IF MissingConfig(env)
       THEN Return(Response(500, "", MissingEnv))
       ELSE pc' = "build" /\ UNCHANGED <<response, responses>>
    /\ UNCHANGED <<request, parsing, built, delivery, err, escaped>>

\* data.customer_name of null throws; k in data of a primitive throws.
BuildThrows(d) == d.t \notin {"obj", "arr"}

BuildError(d) ==
    IF d.t = "null"
    THEN <<"TypeError: Cannot read properties of null (reading 'customer_name')">>
    ELSE <<"TypeError: Cannot use 'in' operator to search for 'customer_name' in ">>
         \o String(d)

\* Lines 50-105: subject, ordered pairs, rows and the document.
Build ==
    /\ pc = "build"
    /\ IF BuildThrows(data)
       THEN Throw(BuildError(data)) /\ UNCHANGED built
       ELSE /\ subject' = Subject(data)
            /\ orderedPairs' = OrderedPairs(data)
            /\ rows' = Rows(OrderedPairs(data))
            /\ htmlContent' = HtmlContent(data, Subject(data), Rows(OrderedPairs(data)))
            /\ pc' = "fetch"
            /\ UNCHANGED <<err, response, responses>>
    /\ UNCHANGED <<request, parsing, envRead, delivery, escaped>>

\* process.env.SITE_NAME || "顧客滿意度調查"
SiteName(e) == Or(e.SITE_NAME, Str(<<"Customer satisfaction survey">>))

\* The body of the request to the provider, lines 115-120.
Payload ==
    [apiKey |-> env.BREVO_API_KEY,
     sender |-> [email |-> env.FROM_EMAIL, name |-> SiteName(env)],
     to |-> <<[email |-> env.TO_EMAIL]>>,
     subject |-> subject,
     htmlContent |-> htmlContent]

\* Lines 108-121: await fetch(...).
Send ==
    /\ pc = "fetch"
    /\ fetchCalls' = fetchCalls + 1
    /\ sent' = Payload
    /\ \E outcome \in ProviderOutcomes :
          /\ provider' = outcome
          /\ IF outcome.kind = "threw"
             THEN Throw(<<"TypeError: fetch failed">>)
             ELSE pc' = "res" /\ UNCHANGED <<err, response, responses>>
    /\ UNCHANGED <<request, parsing, envRead, built, escaped>>

\* The provider's text dropped.
ErrTextDropped(p) == <<>>

\* await res.text().catch(() => "")
ErrText(p) == IF p.readable THEN p.text ELSE <<>>

\* Lines 123-129: the 502.
ProviderFailed ==
    /\ pc = "res"
    /\ ~provider.ok
    /\ Return(Response(502, "", BrevoError(ErrText(provider))))
    /\ UNCHANGED <<request, parsing, envRead, built, delivery, err, escaped>>

\* Lines 131-137.
ProviderSucceeded ==
    /\ pc = "res"
    /\ provider.ok
    /\ Return(Response(200, "no-store", OkBody))
    /\ UNCHANGED <<request, parsing, envRead, built, delivery, err, escaped>>

\* A catch that throws the exception on.
OuterCatchRethrows ==
    /\ pc = "catch"
    /\ escaped' = TRUE
    /\ pc' = "done"
    /\ UNCHANGED <<request, parsing, envRead, built, delivery, err, response, responses>>

\* Lines 138-143: the outer catch.
OuterCatch ==
    /\ pc = "catch"
    /\ Return(Response(500, "", ErrorBody(err)))
    /\ UNCHANGED <<request, parsing, envRead, built, delivery, err, escaped>>

Next ==
    \/ Gate
    \/ ParseBody
    \/ Fallback
    \/ EnvCheck
    \/ Build
    \/ Send
    \/ ProviderFailed
    \/ ProviderSucceeded
    \/ OuterCatch

Spec == Init /\ [][Next]_vars

(***************************************************************************)
(* Submissions of flat forms: a client that posts JSON.stringify(form)     *)
(* with content type application/json to a configured deployment.          *)
(***************************************************************************)
MaxFields == 2

FieldNames ==
    {<<"customer_name">>, <<"q2">>, <<"q1">>, <<"custom_note">>, <<"bot-field">>,
     <<"userAgent">>, <<"toString">>, <<"x", "<", "&">>}

FieldValues ==
    {Str(<<>>),
     Str(<<"<", "b", ">", "&", "lt", ";", Q, "\n", "z">>),
     Arr(<<Str(<<"a">>), Str(<<"<">>)>>)}

FormEntries ==
    UNION {{[i \in 1..n |-> [k |-> ks[i], v |-> vs[i]]] :
                ks \in {f \in [1..n -> FieldNames] :
                            \A i, j \in 1..n : f[i] = f[j] => i = j},
                vs \in [1..n -> FieldValues]} : n \in 0..MaxFields}

Configured ==
    [BREVO_API_KEY |-> Str(<<"set">>), TO_EMAIL |-> Str(<<"to@example.com">>),
     FROM_EMAIL |-> Str(<<"from@example.com">>), SITE_NAME |-> Undef]

InitForms ==
    /\ method = "POST"
    /\ header = Str(<<"application/json">>)
    /\ body \in {Stringify(FromEntries(f), 0) : f \in FormEntries}
    /\ env = Configured
    /\ Fresh

FormSpec == InitForms /\ [][Next]_vars

(***************************************************************************)
(* Reading the state for the properties                                    *)
(***************************************************************************)
\* The presentation has been built.
Built == htmlContent # <<>>

\* The body parsing has ended.
Parsed == pc \notin {"start", "parse", "fallback"}

\* s occurs in h as a run of consecutive tokens.
Contains(h, s) ==
    \E i \in 0..(Len(h) - Len(s)) : \A j \in 1..Len(s) : h[i + j] = s[j]

\* The rows of the table, each from the token after its opening markup.
TableRows(r) == IF r = <<>> THEN <<>> ELSE Tail(Split(r, RowOpen))

\* The label and the cell of a row, as rendered.
LabelOf(row) == SubSeq(row, 1, IndexOf(row, RowMiddle, 1) - 1)
CellOf(row) ==
    SubSeq(row, IndexOf(row, RowMiddle, 1) + 1, IndexOf(row, RowClose, 1) - 1)

\* What a cell shows for a text: the placeholder when the text is empty.
CellText(text) == IF text = <<>> THEN <<NotFilled>> ELSE text

\* What a browser shows for rendered text: an entity is its character and a
\* line break a newline.
RECURSIVE Shown(_)
Shown(h) ==
    IF h = <<>> THEN <<>>
    ELSE IF Head(h) = LineBreak THEN <<"\n">> \o Shown(Tail(h))
    ELSE IF Head(h) = "&" /\ Len(h) >= 3 /\ h[3] = ";"
            /\ h[2] \in {"amp", "lt", "gt", "quot"}
    THEN <<CASE h[2] = "amp" -> "&" [] h[2] = "lt" -> "<"
             [] h[2] = "gt" -> ">" [] h[2] = "quot" -> Q>>
         \o Shown(SubSeq(h, 4, Len(h)))
    ELSE <<Head(h)>> \o Shown(Tail(h))

\* No character "<", ">" or double quote stands in h, and every "&" starts
\* one of the four entities.
NoRawSpecial(h) ==
    \A i \in 1..Len(h) :
        /\ h[i] \notin {"<", ">", Q}
        /\ h[i] = "&" =>
              /\ i + 2 <= Len(h)
              /\ h[i + 1] \in {"amp", "lt", "gt", "quot"}
              /\ h[i + 2] = ";"

\* The keys of the form, in the order the form holds them.
FormKeys(d) == [i \in 1..Len(Entries(d)) |-> Entries(d)[i].k]

SeqToSet(q) == {q[i] : i \in 1..Len(q)}

\* The keys the rows are rendered for, in order.
RenderedKeys == [i \in 1..Len(VisiblePairs(orderedPairs)) |-> VisiblePairs(orderedPairs)[i].k]

\* The order the rows are to have: the label keys the form holds, in label
\* order, then the form's other keys in the form's order, the skipped ones
\* dropped.
LabelOrder ==
    <<<<"customer_name">>, <<"q1">>, <<"q2">>, <<"q2_extra">>, <<"q3">>, <<"q4">>,
      <<"q5">>, <<"q6">>>>

SkipSet ==
    {<<"bot-field">>, <<"form-name">>, <<"g-recaptcha-response">>, <<"submit">>,
     <<"userAgent">>, <<"submittedAt">>}

ExpectedKeys(d) ==
    LET held == SeqToSet(FormKeys(d))
        first == SelectSeq(LabelOrder, LAMBDA k : k \in held)
        rest == SelectSeq(FormKeys(d), LAMBDA k : k \notin SeqToSet(LabelOrder))
    IN  SelectSeq(first \o rest, LAMBDA k : k \notin SkipSet)

\* C6: the keys of the rendered rows are the label keys present in the form in
\* label order, then the form's remaining keys in insertion order, without the
\* skipped keys and without repetition.
C6_RowsInLabelThenInsertionOrder ==
    Built => /\ RenderedKeys = ExpectedKeys(data)
             /\ Len(TableRows(rows)) = Len(ExpectedKeys(data))

\* C8: no "&", "<", ">" or double quote of a submitted name or value stands
\* unescaped in the document; each is its entity, "&" escaped first, so what a
\* row shows is the submitted value; a newline of a value is a line break.
C8_SubmittedTextEscaped ==
    Built =>
        /\ NoRawSpecial(htmlContent)
        /\ Len(TableRows(rows)) = Len(RenderedKeys)
        /\ \A i \in 1..Len(RenderedKeys) :
              LET p == VisiblePairs(orderedPairs)[i]
                  text == IF p.v.t = "arr"
                          THEN Join([n \in 1..Len(p.v.a) |-> p.v.a[n].s], <<",", " ">>)
                          ELSE p.v.s
                  row == TableRows(rows)[i]
              IN  /\ "\n" \notin SeqToSet(CellOf(row))
                  /\ "\n" \notin SeqToSet(LabelOf(row))
                  /\ Shown(CellOf(row)) = CellText(text)
                  /\ p.k \notin SeqToSet(LabelOrder) => Shown(LabelOf(row)) = p.k

\* C8 happens: a document was built from a form whose value holds all four
\* characters and a newline, under a name that holds "<" and "&".
C8_Witness ==
    /\ Built
    /\ \E i \in 1..Len(RenderedKeys) :
          /\ RenderedKeys[i] = <<"x", "<", "&">>
          /\ VisiblePairs(orderedPairs)[i].v
                = Str(<<"<", "b", ">", "&", "lt", ";", Q, "\n", "z">>)
    /\ Contains(htmlContent, <<"&", "lt", ";", "b", "&", "gt", ";", "&", "amp", ";", "lt", ";">>)

\* A required configuration value is absent or empty.
Absent(v) == v = Undef \/ v = Str(<<>>)

ConfigAbsent == Absent(env.BREVO_API_KEY) \/ Absent(env.TO_EMAIL) \/ Absent(env.FROM_EMAIL)

\* C1: a POST request under a configuration that lacks any of the three
\* required values never calls the provider, and is answered 500 with the fixed
\* missing-configuration message, whatever the content type and the body.
C1_MissingConfigNoCall ==
    (method = "POST" /\ ConfigAbsent) =>
        /\ fetchCalls = 0
        /\ sent = Undef
        /\ pc \notin {"build", "fetch", "res", "catch"}
        /\ pc = "done" =>
              /\ response.status = 500
              /\ response.contentType = "application/json; charset=utf-8"
              /\ response.body
                    = Obj(<<[k |-> <<"error">>,
                             v |-> Str(<<"Missing environment variables. Please configure BREVO_API_KEY, TO_EMAIL, FROM_EMAIL.">>)]>>)

\* C1 happens: a POST whose body decoded to null was answered under a
\* configuration that has the key and the sender but no recipient.
C1_Witness ==
    /\ pc = "done" /\ method = "POST" /\ response.status = 500
    /\ env.BREVO_API_KEY = Str(<<"set">>) /\ env.TO_EMAIL = Undef
    /\ env.FROM_EMAIL # Undef
    /\ data = Null

\* How far the invocation has come.
Stage ==
    CASE pc = "start" -> 0 [] pc = "parse" -> 1 [] pc = "fallback" -> 2
      [] pc = "env" -> 3 [] pc = "build" -> 4 [] pc = "fetch" -> 5
      [] pc = "res" -> 6 [] pc = "catch" -> 7 [] pc = "done" -> 8

\* C2: every invocation ends, with exactly one response, whose content type
\* is JSON and whose status is 200, 405, 500 or 502; no exception leaves the
\* handler, and an exception caught at the top is answered 500 with its text
\* in the error field.  It ends because, until it has answered, a step is
\* always possible and every step takes it further.
C2_AlwaysOneJsonResponse ==
    /\ [](pc = "done" =>
            /\ responses = 1
            /\ ~escaped
            /\ response.contentType = "application/json; charset=utf-8"
            /\ response.status \in {200, 405, 500, 502}
            /\ err # <<>> =>
                  /\ response.status = 500
                  /\ response.body = Obj(<<[k |-> <<"error">>, v |-> Str(err)]>>))
    /\ [](pc # "done" => responses = 0 /\ ~escaped /\ ENABLED Next)
    /\ [][Stage' > Stage]_vars

\* C2 happens: the call to the provider threw and the invocation was answered.
C2_Witness ==
    /\ pc = "done" /\ responses = 1 /\ response.status = 500
    /\ provider.kind = "threw"
    /\ response.body = Obj(<<[k |-> <<"error">>, v |-> Str(<<"TypeError: fetch failed">>)]>>)

\* C3: once the body is parsed data is a mapping, and a POST under a full
\* configuration whose provider does not fail is answered 200, for every
\* content type and body.
C3_ParsingNeverSurfaces ==
    /\ Parsed /\ method = "POST" => data.t = "obj"
    /\ (pc = "done" /\ method = "POST" /\ ~ConfigAbsent
           /\ provider.kind # "threw" /\ ~(provider.kind = "res" /\ ~provider.ok))
          => response.status = 200

\* C4: the provider's answer to the call decides the response: 200 with
\* {"ok": true} and cache-control no-store on success, 502 with the label and
\* the provider's text (the empty text when it cannot be read) otherwise; the
\* call is made at most once.
C4_ProviderOutcomeDecides ==
    /\ fetchCalls <= 1
    /\ fetchCalls = 0 <=> provider.kind = "none"
    /\ (pc = "done" /\ provider.kind = "res") =>
          IF provider.status \in 200..299
          THEN /\ response.status = 200
               /\ response.cacheControl = "no-store"
               /\ response.contentType = "application/json; charset=utf-8"
               /\ response.body = Obj(<<[k |-> <<"ok">>, v |-> Bool(TRUE)]>>)
          ELSE /\ response.status = 502
               /\ response.contentType = "application/json; charset=utf-8"
               /\ response.body
                     = Obj(<<[k |-> <<"error">>, v |-> Str(<<"Brevo API error">>)],
                             [k |-> <<"details">>,
                              v |-> Str(IF provider.readable THEN provider.text
                                        ELSE <<>>)]>>)

\* C4 happens: the provider answered 400 "bad request" and the response is 502
\* with those details.
C4_Witness ==
    /\ pc = "done" /\ fetchCalls = 1
    /\ provider.status = 400 /\ provider.text = <<"bad request">>
    /\ response.status = 502
    /\ Get(response.body, <<"details">>) = Str(<<"bad request">>)

\* C5: a request whose method is not POST is answered 405 with
\* {"error": "Method Not Allowed"}; its body is never read, the configuration
\* is not consulted and the provider is not called.
C5_NonPostHasNoEffects ==
    method # "POST" =>
        /\ readCalls = 0 /\ ~bodyUsed /\ readsOk = 0
        /\ ~envRead
        /\ fetchCalls = 0 /\ sent = Undef
        /\ data = Obj(<<>>)
        /\ pc \in {"start", "done"}
        /\ pc = "done" =>
              /\ response.status = 405
              /\ response.contentType = "application/json; charset=utf-8"
              /\ response.body
                    = Obj(<<[k |-> <<"error">>, v |-> Str(<<"Method Not Allowed">>)]>>)

\* C5 happens: a GET that carries a body, under a full configuration, was
\* answered.
C5_Witness ==
    /\ pc = "done" /\ method = "GET" /\ response.status = 405
    /\ body # <<>> /\ ~ConfigAbsent

\* The fields of the form whose name is skipped.
SkippedFields == {i \in 1..Len(Entries(data)) : Entries(data)[i].k \in SkipSet}

\* C7 as stated: neither the name nor the value of a skipped field of the form
\* stands anywhere in the document sent to the provider.
C7_SkippedAbsentFromDocument ==
    Built =>
        \A i \in SkippedFields :
            /\ ~Contains(htmlContent, Entries(data)[i].k)
            /\ ~Contains(htmlContent, String(Entries(data)[i].v))

\* C7 as the code has it: a skipped field of the form has no row in the
\* table: no row is labelled with its name, and a row whose cell shows its
\* value is the row of another field with that value.  (The document still
\* carries the field in the dump of the whole form, and the values of
\* submittedAt and userAgent in the two envelope rows.)
C7_SkippedHaveNoRow ==
    Built =>
        /\ Len(TableRows(rows)) = Len(RenderedKeys)
        /\ \A i \in SkippedFields :
              LET f == Entries(data)[i]
              IN  /\ f.k \notin SeqToSet(RenderedKeys)
                  /\ \A r \in 1..Len(TableRows(rows)) :
                        /\ LabelOf(TableRows(rows)[r]) # f.k
                        /\ Shown(CellOf(TableRows(rows)[r])) = CellText(String(f.v)) =>
                              \E j \in 1..Len(Entries(data)) :
                                  /\ Entries(data)[j].k = RenderedKeys[r]
                                  /\ Entries(data)[j].k \notin SkipSet
                                  /\ Entries(data)[j].v = f.v

\* C7 happens: a multipart form whose first field is bot-field with value x
\* was rendered, with a row for another field.
C7_Witness ==
    /\ Built
    /\ Branch(ContentType(header)) = "multipart"
    /\ Entries(data) # <<>>
    /\ Entries(data)[1] = [k |-> <<"bot-field">>, v |-> Str(<<"x">>)]
    /\ Len(TableRows(rows)) = 1

\* The request was decoded as a multipart form.
MultipartDecoded ==
    /\ Parsed
    /\ Branch(ContentType(header)) = "multipart"
    /\ readsOk = 1 /\ readCalls = 1

\* The values a multipart body carries for the name k, in order.
PartValues(k) ==
    LET parts == FormDataParse(body).entries
        mine == SelectSeq(parts, LAMBDA p : p.k = k)
    IN  [i \in 1..Len(mine) |-> mine[i].v.s]

\* The row rendered for the key k, when there is one.
RowFor(k) == TableRows(rows)[CHOOSE i \in 1..Len(RenderedKeys) : RenderedKeys[i] = k]

\* C9 as stated: the row of a key for which a multipart form carries several
\* values shows all of them, in order, joined by ", ".
C9_MultipartValuesJoined ==
    (Built /\ MultipartDecoded) =>
        \A k \in SeqToSet(RenderedKeys) :
            Len(PartValues(k)) >= 2 =>
                Shown(CellOf(RowFor(k))) = CellText(Join(PartValues(k), <<",", " ">>))

\* C9 as the code has it: the row of a key for which a multipart form carries
\* several values shows the last of them alone; a row shows values joined by
\* ", " when the value of the field is an array, as a JSON body gives.
C9_LastValueOrJoinedArray ==
    Built =>
        /\ MultipartDecoded =>
              \A k \in SeqToSet(RenderedKeys) :
                  Shown(CellOf(RowFor(k))) = CellText(PartValues(k)[Len(PartValues(k))])
        /\ \A i \in 1..Len(RenderedKeys) :
              LET v == VisiblePairs(orderedPairs)[i].v
              IN  (v.t = "arr" /\ \A n \in 1..Len(v.a) : v.a[n].t = "str") =>
                      Shown(CellOf(TableRows(rows)[i]))
                          = CellText(Join([n \in 1..Len(v.a) |-> v.a[n].s], <<",", " ">>))

\* C9 happens: a multipart form that carries a and then b for tag was rendered.
C9_Witness ==
    /\ Built /\ MultipartDecoded
    /\ PartValues(<<"tag">>) = <<<<"a">>, <<"b">>>>
    /\ <<"tag">> \in SeqToSet(RenderedKeys)
    /\ Shown(CellOf(RowFor(<<"tag">>))) = <<"b">>

\* C10: when the content type names JSON and the body is not JSON, the form
\* is the URL-encoded decoding of the body text, and over the invocation the
\* stream is consumed successfully exactly once.
C10_JsonFallbackDecodesText ==
    (Parsed /\ method = "POST" /\ Branch(ContentType(header)) = "json"
        /\ readsOk >= 1 /\ ~JsonParse(body).ok) =>
        /\ readsOk = 1
        /\ data = FromEntries(URLSearchParams(body))

====
